---------------------------- MODULE Spec2Model ----------------------------
(***************************************************************************)
(* Model of the public facade of rookie (rookie-rs/src/lib.rs): the        *)
(* per-browser entry points, the `load` aggregator and `any_browser`.      *)
(*                                                                         *)
(* The family extractors (chromium_based, firefox_based, safari_based,     *)
(* internet_explorer_based) and the path lookups in module paths live in    *)
(* other files of the crate.  They are modelled as an unchanging           *)
(* environment: `installed` says for which browser configurations the      *)
(* path lookup succeeds, `store` says which (extractor, key, path)         *)
(* triples can be read and which rows they hold.  No assumption is made    *)
(* about which triples succeed.                                            *)
(***************************************************************************)
EXTENDS Naturals, Sequences, FiniteSets, TLC

VARIABLES
    os,            \* compile target: "linux", "macos" or "windows"
    installed,     \* configurations whose path lookup succeeds
    store,         \* readable stores: <<extractor, key, path>> -> rows
    pc,            \* per call: "idle", "load", "any", "done"
    fn,            \* per call: name of the public function called
    domains,       \* per call: the `domains` argument
    cookies_path,  \* per call: the `cookies_path` argument (any_browser)
    key_path,      \* per call: the `key_path` argument (any_browser)
    browser_types, \* per call: load's local vector of entry points
    idx,           \* per call: position in the loop being run
    cookies,       \* per call: load's local accumulator
    ret,           \* per call: the returned Result
    calls,         \* per call: family extractor invocations, in order
    invoked        \* per call: entry points invoked by load, in order

vars == <<os, installed, store, pc, fn, domains, cookies_path, key_path,
          browser_types, idx, cookies, ret, calls, invoked>>

env == <<os, installed, store>>

(***************************************************************************)
(* Bounds of the model.                                                    *)
(***************************************************************************)
\* At most this many browsers are installed on the machine (load).
MaxInstalled == 2
\* At most this many (extractor, key) pairs can read the file given to
\* any_browser.
MaxReadable == 2
Procs == {1, 2}

OSes == {"linux", "macos", "windows"}

(***************************************************************************)
(* Values: Option, Result, errors, cookies.                                *)
(***************************************************************************)
None == [some |-> FALSE, val |-> <<>>]

Some(v) == [some |-> TRUE, val |-> v]

NoErr == [msg |-> "", store |-> "", path |-> <<>>]

Ok(cs) == [ok |-> TRUE, cookies |-> cs, err |-> NoErr]

Err(e) == [ok |-> FALSE, cookies |-> <<>>, err |-> e]

\* Paths and keys.  A database path and a key file are named after the
\* configuration they belong to; on unix the key store is addressed by the
\* configuration itself.
NoKey == <<"none", "">>

DbPath(config) == <<"db", config>>

KeyPath(config) == <<"key", config>>

ConfigKey(config) == <<"config", config>>

\* Cookie domains are sequences of characters.
Cookie(d, n) == [domain |-> d, name |-> n]

CookieA == Cookie(<<".", "a">>, "sid")

CookieB == Cookie(<<"b">>, "sid")

CookieUpperA == Cookie(<<"x", "A">>, "tok")

\* The row lists the store of an installed browser may hold: one with a
\* repeated row, one with rows also found in the other.
BrowserRows == { <<CookieA, CookieB, CookieA>>, <<CookieB, CookieUpperA>> }

\* The row lists the file given to any_browser may hold.
RowChoices == BrowserRows \cup { <<>> }

\* The `domains` arguments tried.
DomainChoices == { None, Some(<< <<".", "A">>, <<"q">> >>) }

(***************************************************************************)
(* Domain filter (component "Domain Filter & Normalizer").                 *)
(***************************************************************************)
Lower(ch) == IF ch = "A" THEN "a" ELSE IF ch = "B" THEN "b" ELSE ch

LowerStr(s) == [k \in 1..Len(s) |-> Lower(s[k])]

StripDot(s) == IF Len(s) > 0 /\ s[1] = "." THEN Tail(s) ELSE s

IsSuffix(d, h) ==
    /\ Len(d) <= Len(h)
    /\ SubSeq(h, Len(h) - Len(d) + 1, Len(h)) = d

DomainMatch(d, host) == IsSuffix(LowerStr(StripDot(d)), LowerStr(StripDot(host)))

Admit(ds, c) ==
    \/ ~ds.some
    \/ \E k \in 1..Len(ds.val) : DomainMatch(ds.val[k], c.domain)

Filter(rows, ds) == SelectSeq(rows, LAMBDA c : Admit(ds, c))

(***************************************************************************)
(* Family extractors and path lookups (environment).                       *)
(***************************************************************************)
ExtractCall(ext, key, path, ds) ==
    [ext |-> ext, key |-> key, path |-> path, domains |-> ds]

\* The result of one extractor invocation.
Run(c) ==
    IF <<c.ext, c.key, c.path>> \in DOMAIN store
    THEN Ok(Filter(store[<<c.ext, c.key, c.path>>], c.domains))
    ELSE Err([msg |-> "db_not_found", store |-> c.ext, path |-> c.path])

\* What an entry point hands back to the model: its Result and the extractor
\* invocations it made.
Outcome(r, cs) == [ret |-> r, calls |-> cs]

Invoke(c) == Outcome(Run(c), <<c>>)

chromium_based(key, db_path, ds) == Invoke(ExtractCall("chromium", key, db_path, ds))

firefox_based(db_path, ds) == Invoke(ExtractCall("mozilla", NoKey, db_path, ds))

safari_based(db_path, ds) == Invoke(ExtractCall("safari", NoKey, db_path, ds))

internet_explorer_based(db_path, ds) == Invoke(ExtractCall("ie", NoKey, db_path, ds))

get_browser_config(name) == name

LookupError(config) ==
    [msg |-> "profile_not_found", store |-> config, path |-> DbPath(config)]

\* paths::find_mozilla_based_paths, find_safari_based_paths, find_ie_based_paths:
\* db_path
find_db_path(config) ==
    IF config \in installed
    THEN [ok |-> TRUE, db |-> DbPath(config), err |-> NoErr]
    ELSE [ok |-> FALSE, db |-> <<>>, err |-> LookupError(config)]

\* paths::find_chrome_based_paths: (key, db_path)
find_chrome_based_paths(config) ==
    IF config \in installed
    THEN [ok |-> TRUE, key |-> KeyPath(config), db |-> DbPath(config), err |-> NoErr]
    ELSE [ok |-> FALSE, key |-> NoKey, db |-> <<>>, err |-> LookupError(config)]

(***************************************************************************)
(* Per-browser entry points.                                               *)
(***************************************************************************)
\* Body shared by firefox, librewolf, cachy and zen.
MozillaBrowser(name, ds) ==
    LET config == get_browser_config(name)
        found == find_db_path(config)
    IN  IF ~found.ok THEN Outcome(Err(found.err), <<>>)
        ELSE firefox_based(found.db, ds)

\* Variant: the extractor is invoked although the path lookup failed.
ChromiumBrowserBlind(name, ds) ==
    LET config == get_browser_config(name)
        found == find_chrome_based_paths(config)
    IN  IF os = "windows" THEN chromium_based(KeyPath(config), DbPath(config), ds)
        ELSE chromium_based(ConfigKey(config), DbPath(config), ds)

\* Body shared by chrome, chromium, brave, arc, edge, vivaldi, opera, opera_gx
\* and octo_browser: on windows the key file found beside the database is
\* passed, on unix the configuration.
ChromiumBrowser(name, ds) ==
    LET config == get_browser_config(name)
        found == find_chrome_based_paths(config)
    IN  IF ~found.ok THEN Outcome(Err(found.err), <<>>)
        ELSE IF os = "windows" THEN chromium_based(found.key, found.db, ds)
        ELSE chromium_based(ConfigKey(config), found.db, ds)

firefox(ds) == MozillaBrowser("firefox", ds)

librewolf(ds) == MozillaBrowser("librewolf", ds)

\* linux only
cachy(ds) == MozillaBrowser("cachy", ds)

chrome(ds) == ChromiumBrowser("chrome", ds)

chromium(ds) == ChromiumBrowser("chromium", ds)

brave(ds) == ChromiumBrowser("brave", ds)

arc(ds) == ChromiumBrowser("arc", ds)

zen(ds) == MozillaBrowser("zen", ds)

edge(ds) == ChromiumBrowser("edge", ds)

vivaldi(ds) == ChromiumBrowser("vivaldi", ds)

opera(ds) == ChromiumBrowser("opera", ds)

opera_gx(ds) == ChromiumBrowser("opera_gx", ds)

\* windows only
octo_browser(ds) == ChromiumBrowser("octo_browser", ds)

\* macos only
safari(ds) ==
    LET config == get_browser_config("safari")
        found == find_db_path(config)
    IN  IF ~found.ok THEN Outcome(Err(found.err), <<>>)
        ELSE safari_based(found.db, ds)

\* windows only
internet_explorer(ds) ==
    LET config == get_browser_config("ie")
        found == find_db_path(config)
    IN  IF ~found.ok THEN Outcome(Err(found.err), <<>>)
        ELSE internet_explorer_based(found.db, ds)

\* The public entry points compiled on target o (the cfg attributes).
EntryPoints(o) ==
    {"firefox", "librewolf", "chrome", "chromium", "brave", "arc", "zen",
     "edge", "vivaldi", "opera", "opera_gx"}
    \cup (IF o = "linux" THEN {"cachy"} ELSE {})
    \cup (IF o = "windows" THEN {"octo_browser", "internet_explorer"} ELSE {})
    \cup (IF o = "macos" THEN {"safari"} ELSE {})

\* Calling the entry point named b.
BrowserFn(b, ds) ==
    CASE b = "firefox" -> firefox(ds)
      [] b = "librewolf" -> librewolf(ds)
      [] b = "cachy" -> cachy(ds)
      [] b = "chrome" -> chrome(ds)
      [] b = "chromium" -> chromium(ds)
      [] b = "brave" -> brave(ds)
      [] b = "arc" -> arc(ds)
      [] b = "zen" -> zen(ds)
      [] b = "edge" -> edge(ds)
      [] b = "vivaldi" -> vivaldi(ds)
      [] b = "opera" -> opera(ds)
      [] b = "opera_gx" -> opera_gx(ds)
      [] b = "octo_browser" -> octo_browser(ds)
      [] b = "safari" -> safari(ds)
      [] b = "internet_explorer" -> internet_explorer(ds)

(***************************************************************************)
(* load                                                                    *)
(***************************************************************************)
\* The vector browser_types after the platform-specific pushes.
BrowserTypes(o) ==
    <<"firefox", "zen", "librewolf", "opera", "edge", "chromium", "brave",
      "vivaldi", "arc">>
    \o (IF o = "windows" THEN <<"chrome", "internet_explorer", "opera_gx">>
        ELSE IF o = "linux" THEN <<"chrome", "cachy">>
        ELSE <<"chrome", "opera_gx", "safari">>)

\* Result::unwrap_or
unwrap_or(r, default) == IF r.ok THEN r.cookies ELSE default

\* Variant: cookies already collected are not added again.
extend_dedup(v, more) ==
    v \o SelectSeq(more, LAMBDA c : \A k \in 1..Len(v) : v[k] # c)

\* Vec::extend
extend(v, more) == v \o more

\* Variant: load does not forward its domains.
LoadDomainsArgNone(p) == None

\* The argument load passes to each entry point: domains.clone()
LoadDomainsArg(p) == domains[p]

\* let mut cookies = Vec::new(); let mut browser_types = vec![...]; pushes
LoadCall(p, ds) ==
    /\ pc[p] = "idle"
    /\ pc' = [pc EXCEPT ![p] = "load"]
    /\ fn' = [fn EXCEPT ![p] = "load"]
    /\ domains' = [domains EXCEPT ![p] = ds]
    /\ cookies' = [cookies EXCEPT ![p] = <<>>]
    /\ browser_types' = [browser_types EXCEPT ![p] = BrowserTypes(os)]
    /\ idx' = [idx EXCEPT ![p] = 1]
    /\ UNCHANGED <<env, cookies_path, key_path, ret, calls, invoked>>

\* Variant: the entry point's error is propagated (`?` for unwrap_or).
LoadIterPropagate(p) ==
    /\ pc[p] = "load"
    /\ idx[p] <= Len(browser_types[p])
    /\ LET browser_fn == browser_types[p][idx[p]]
           out == BrowserFn(browser_fn, LoadDomainsArg(p))
       IN  /\ calls' = [calls EXCEPT ![p] = calls[p] \o out.calls]
           /\ invoked' = [invoked EXCEPT ![p] = Append(invoked[p], browser_fn)]
           /\ IF out.ret.ok
              THEN /\ cookies' = [cookies EXCEPT ![p] = extend(cookies[p], out.ret.cookies)]
                   /\ idx' = [idx EXCEPT ![p] = idx[p] + 1]
                   /\ UNCHANGED <<pc, ret>>
              ELSE /\ ret' = [ret EXCEPT ![p] = out.ret]
                   /\ pc' = [pc EXCEPT ![p] = "done"]
                   /\ UNCHANGED <<cookies, idx>>
    /\ UNCHANGED <<env, fn, domains, cookies_path, key_path, browser_types>>

\* Variant: the accumulator is one process-wide vector shared by all calls.
LoadIterShared(p) ==
    /\ pc[p] = "load"
    /\ idx[p] <= Len(browser_types[p])
    /\ LET browser_fn == browser_types[p][idx[p]]
           out == BrowserFn(browser_fn, LoadDomainsArg(p))
           browser_cookies == unwrap_or(out.ret, <<>>)
       IN  /\ cookies' = [q \in Procs |-> extend(cookies[p], browser_cookies)]
           /\ calls' = [calls EXCEPT ![p] = calls[p] \o out.calls]
           /\ invoked' = [invoked EXCEPT ![p] = Append(invoked[p], browser_fn)]
    /\ idx' = [idx EXCEPT ![p] = idx[p] + 1]
    /\ UNCHANGED <<env, pc, fn, domains, cookies_path, key_path, browser_types, ret>>

\* One iteration of `for browser_fn in browser_types.iter()`.
LoadIter(p) ==
    /\ pc[p] = "load"
    /\ idx[p] <= Len(browser_types[p])
    /\ LET browser_fn == browser_types[p][idx[p]]
           out == BrowserFn(browser_fn, LoadDomainsArg(p))
           browser_cookies == unwrap_or(out.ret, <<>>)
       IN  /\ cookies' = [cookies EXCEPT ![p] = extend(cookies[p], browser_cookies)]
           /\ calls' = [calls EXCEPT ![p] = calls[p] \o out.calls]
           /\ invoked' = [invoked EXCEPT ![p] = Append(invoked[p], browser_fn)]
    /\ idx' = [idx EXCEPT ![p] = idx[p] + 1]
    /\ UNCHANGED <<env, pc, fn, domains, cookies_path, key_path, browser_types, ret>>

\* Ok(cookies)
LoadReturn(p) ==
    /\ pc[p] = "load"
    /\ idx[p] > Len(browser_types[p])
    /\ ret' = [ret EXCEPT ![p] = Ok(cookies[p])]
    /\ pc' = [pc EXCEPT ![p] = "done"]
    /\ UNCHANGED <<env, fn, domains, cookies_path, key_path, browser_types, idx,
                   cookies, calls, invoked>>

\* A direct call of the public entry point b.
EntryCall(p, b, ds) ==
    /\ pc[p] = "idle"
    /\ b \in EntryPoints(os)
    /\ LET out == BrowserFn(b, ds)
       IN  /\ ret' = [ret EXCEPT ![p] = out.ret]
           /\ calls' = [calls EXCEPT ![p] = out.calls]
    /\ pc' = [pc EXCEPT ![p] = "done"]
    /\ fn' = [fn EXCEPT ![p] = b]
    /\ domains' = [domains EXCEPT ![p] = ds]
    /\ UNCHANGED <<env, cookies_path, key_path, browser_types, idx, cookies, invoked>>

(***************************************************************************)
(* any_browser                                                             *)
(***************************************************************************)
chrome_configs ==
    <<"chrome", "brave", "chromium", "edge", "opera", "opera_gx", "vivaldi">>

\* The error built by bail!: a fixed message, nothing interpolated.
NoCookiesFound == [msg |-> "No cookies found", store |-> "", path |-> <<>>]

\* Variant: a supplied key_path is honoured on every target.
ChromiumAttemptsKeyed(o, path, ds, kp) ==
    IF kp.some THEN <<ExtractCall("chromium", kp.val, path, ds)>>
    ELSE IF o \in {"linux", "macos"}
    THEN [k \in 1..Len(chrome_configs) |->
            ExtractCall("chromium", ConfigKey(get_browser_config(chrome_configs[k])),
                        path, ds)]
    ELSE <<>>

\* The chromium attempts: on unix one per configuration of chrome_configs,
\* on windows one with the key file, and only if key_path is Some.
ChromiumAttempts(o, path, ds, kp) ==
    IF o \in {"linux", "macos"}
    THEN [k \in 1..Len(chrome_configs) |->
            ExtractCall("chromium", ConfigKey(get_browser_config(chrome_configs[k])),
                        path, ds)]
    ELSE IF kp.some THEN <<ExtractCall("chromium", kp.val, path, ds)>>
    ELSE <<>>

\* The extractor invocations any_browser makes, in program order, as long as
\* none returns Ok.
Attempts(o, path, ds, kp) ==
    ChromiumAttempts(o, path, ds, kp)
    \o <<ExtractCall("mozilla", NoKey, path, ds)>>
    \o (IF o = "windows" THEN <<ExtractCall("ie", NoKey, path, ds)>>
        ELSE IF o = "macos" THEN <<ExtractCall("safari", NoKey, path, ds)>>
        ELSE <<>>)

MyAttempts(p) == Attempts(os, cookies_path[p], domains[p], key_path[p])

AnyCall(p, path, ds, kp) ==
    /\ pc[p] = "idle"
    /\ pc' = [pc EXCEPT ![p] = "any"]
    /\ fn' = [fn EXCEPT ![p] = "any_browser"]
    /\ cookies_path' = [cookies_path EXCEPT ![p] = path]
    /\ domains' = [domains EXCEPT ![p] = ds]
    /\ key_path' = [key_path EXCEPT ![p] = kp]
    /\ idx' = [idx EXCEPT ![p] = 1]
    /\ UNCHANGED <<env, browser_types, cookies, ret, calls, invoked>>

\* Variant: an empty list is taken for a failure (the next extractor is tried).
AnyTrySkipEmpty(p) ==
    /\ pc[p] = "any"
    /\ idx[p] <= Len(MyAttempts(p))
    /\ LET out == Invoke(MyAttempts(p)[idx[p]])
       IN  /\ calls' = [calls EXCEPT ![p] = calls[p] \o out.calls]
           /\ IF out.ret.ok /\ out.ret.cookies # <<>>
              THEN /\ ret' = [ret EXCEPT ![p] = Ok(out.ret.cookies)]
                   /\ pc' = [pc EXCEPT ![p] = "done"]
                   /\ idx' = idx
              ELSE /\ idx' = [idx EXCEPT ![p] = idx[p] + 1]
                   /\ UNCHANGED <<ret, pc>>
    /\ UNCHANGED <<env, fn, domains, cookies_path, key_path, browser_types,
                   cookies, invoked>>

\* One `if let Ok(cookies) = ..._based(..) { return Ok(cookies); }`.
AnyTry(p) ==
    /\ pc[p] = "any"
    /\ idx[p] <= Len(MyAttempts(p))
    /\ LET out == Invoke(MyAttempts(p)[idx[p]])
       IN  /\ calls' = [calls EXCEPT ![p] = calls[p] \o out.calls]
           /\ IF out.ret.ok
              THEN /\ ret' = [ret EXCEPT ![p] = Ok(out.ret.cookies)]
                   /\ pc' = [pc EXCEPT ![p] = "done"]
                   /\ idx' = idx
              ELSE /\ idx' = [idx EXCEPT ![p] = idx[p] + 1]
                   /\ UNCHANGED <<ret, pc>>
    /\ UNCHANGED <<env, fn, domains, cookies_path, key_path, browser_types,
                   cookies, invoked>>

\* Variant: the error of the last attempt is returned.
AnyBailLastError(p) ==
    /\ pc[p] = "any"
    /\ idx[p] > Len(MyAttempts(p))
    /\ ret' = [ret EXCEPT ![p] = Run(MyAttempts(p)[Len(MyAttempts(p))])]
    /\ pc' = [pc EXCEPT ![p] = "done"]
    /\ UNCHANGED <<env, fn, domains, cookies_path, key_path, browser_types, idx,
                   cookies, calls, invoked>>

\* bail!("No cookies found. ...")
AnyBail(p) ==
    /\ pc[p] = "any"
    /\ idx[p] > Len(MyAttempts(p))
    /\ ret' = [ret EXCEPT ![p] = Err(NoCookiesFound)]
    /\ pc' = [pc EXCEPT ![p] = "done"]
    /\ UNCHANGED <<env, fn, domains, cookies_path, key_path, browser_types, idx,
                   cookies, calls, invoked>>

(***************************************************************************)
(* Initial states and specifications.                                      *)
(***************************************************************************)
NoRet == [ok |-> FALSE, cookies |-> <<>>, err |-> NoErr]

InitCalls ==
    /\ pc = [p \in Procs |-> "idle"]
    /\ fn = [p \in Procs |-> ""]
    /\ domains = [p \in Procs |-> None]
    /\ cookies_path = [p \in Procs |-> <<>>]
    /\ key_path = [p \in Procs |-> None]
    /\ browser_types = [p \in Procs |-> <<>>]
    /\ idx = [p \in Procs |-> 0]
    /\ cookies = [p \in Procs |-> <<>>]
    /\ ret = [p \in Procs |-> NoRet]
    /\ calls = [p \in Procs |-> <<>>]
    /\ invoked = [p \in Procs |-> <<>>]

\* The configuration an entry point selects.
ConfigOf(b) == IF b = "internet_explorer" THEN "ie" ELSE b

\* The store an installed browser's entry point reads on target o.
TripleOf(o, b) ==
    IF b \in {"firefox", "librewolf", "cachy", "zen"}
    THEN <<"mozilla", NoKey, DbPath(ConfigOf(b))>>
    ELSE IF b = "safari" THEN <<"safari", NoKey, DbPath(ConfigOf(b))>>
    ELSE IF b = "internet_explorer" THEN <<"ie", NoKey, DbPath(ConfigOf(b))>>
    ELSE IF o = "windows" THEN <<"chromium", KeyPath(ConfigOf(b)), DbPath(ConfigOf(b))>>
    ELSE <<"chromium", ConfigKey(ConfigOf(b)), DbPath(ConfigOf(b))>>

SubsetsUpTo(S, n) == {T \in SUBSET S : Cardinality(T) <= n}

\* A machine with at most MaxInstalled browsers installed; the store of an
\* installed browser is unreadable or holds any of the row lists.
InitLoad ==
    /\ os \in OSes
    /\ \E I \in SubsetsUpTo(EntryPoints(os), MaxInstalled) :
         /\ installed = {ConfigOf(b) : b \in I}
         /\ \E R \in SUBSET I :
              \E rows \in [R -> BrowserRows] :
                store = [t \in {TripleOf(os, b) : b \in R} |->
                           rows[CHOOSE b \in R : TripleOf(os, b) = t]]
    /\ InitCalls

NextLoad ==
    \/ \E ds \in DomainChoices : LoadCall(1, ds)
    \/ LoadIter(1)
    \/ LoadReturn(1)
    \/ \E b \in EntryPoints(os), ds \in DomainChoices : EntryCall(1, b, ds)

Spec == InitLoad /\ [][NextLoad]_vars

\* The cookie files handed to any_browser, and the key files.
CookiePaths == {DbPath("chrome")}

KeyChoices == {None, Some(KeyPath("chrome"))}

\* The (extractor, key) pairs any_browser can try on target o.
Readers(o) ==
    {<<"mozilla", NoKey>>}
    \cup (IF o = "windows" THEN {<<"chromium", KeyPath("chrome")>>, <<"ie", NoKey>>}
          ELSE {<<"chromium", ConfigKey(chrome_configs[k])>> :
                  k \in 1..Len(chrome_configs)})
    \cup (IF o = "macos" THEN {<<"safari", NoKey>>} ELSE {})

\* A cookie file that at most MaxReadable (extractor, key) pairs can read.
InitAny ==
    /\ os \in OSes
    /\ installed = {}
    /\ \E path \in CookiePaths :
         \E R \in SubsetsUpTo(Readers(os), MaxReadable) :
           \E rows \in [R -> RowChoices] :
             store = [t \in {<<r[1], r[2], path>> : r \in R} |->
                        rows[<<t[1], t[2]>>]]
    /\ InitCalls

NextAny ==
    \/ \E path \in CookiePaths, ds \in DomainChoices, kp \in KeyChoices :
         AnyCall(1, path, ds, kp)
    \/ AnyTry(1)
    \/ AnyBail(1)

SpecAny == InitAny /\ [][NextAny]_vars

\* Two calls running concurrently on a machine with Firefox and Chrome
\* installed; each of three stores is readable or not.
ConcTriples(o) ==
    {TripleOf(o, "firefox"), TripleOf(o, "chrome"),
     <<"mozilla", NoKey, DbPath("chrome")>>}

ConcRows(t) ==
    IF t[1] = "chromium" THEN <<CookieB, CookieUpperA>>
    ELSE <<CookieA, CookieB, CookieA>>

InitConc ==
    /\ os \in OSes
    /\ installed = {"firefox", "chrome"}
    /\ \E S \in SUBSET ConcTriples(os) : store = [t \in S |-> ConcRows(t)]
    /\ InitCalls

NextConc ==
    \E p \in Procs :
      \/ \E ds \in DomainChoices : LoadCall(p, ds)
      \/ LoadIter(p)
      \/ LoadReturn(p)
      \/ \E path \in CookiePaths, ds \in DomainChoices, kp \in KeyChoices :
           AnyCall(p, path, ds, kp)
      \/ AnyTry(p)
      \/ AnyBail(p)

SpecConc == InitConc /\ [][NextConc]_vars

(***************************************************************************)
(* Properties.                                                             *)
(***************************************************************************)
Range(q) == {q[k] : k \in 1..Len(q)}

LoadDone(p) == fn[p] = "load" /\ pc[p] = "done"

AnyDone(p) == fn[p] = "any_browser" /\ pc[p] = "done"

EntryDone(p) == pc[p] = "done" /\ fn[p] \in EntryPoints(os)

\* The cookie list an entry point contributes: its list if it returned Ok,
\* nothing if it failed.
OkCookies(b, ds) ==
    LET out == BrowserFn(b, ds)
    IN  IF out.ret.ok THEN out.ret.cookies ELSE <<>>

RECURSIVE ConcatOk(_, _)
ConcatOk(names, ds) ==
    IF names = <<>> THEN <<>>
    ELSE OkCookies(Head(names), ds) \o ConcatOk(Tail(names), ds)

\* The order of load's browser list, as documented.
LoadOrder(o) ==
    IF o = "windows"
    THEN <<"firefox", "zen", "librewolf", "opera", "edge", "chromium", "brave",
           "vivaldi", "arc", "chrome", "internet_explorer", "opera_gx">>
    ELSE IF o = "linux"
    THEN <<"firefox", "zen", "librewolf", "opera", "edge", "chromium", "brave",
           "vivaldi", "arc", "chrome", "cachy">>
    ELSE <<"firefox", "zen", "librewolf", "opera", "edge", "chromium", "brave",
           "vivaldi", "arc", "chrome", "opera_gx", "safari">>

\* C1: load never returns an error: whatever entry points fail, all of them
\* included, a finished call of load has returned Ok.
C1_LoadNeverErrs == \A p \in Procs : LoadDone(p) => ret[p].ok

\* A finished load all of whose entry points failed.
C1_Witness ==
    /\ LoadDone(1)
    /\ Len(invoked[1]) >= 11
    /\ \A b \in Range(invoked[1]) : ~BrowserFn(b, domains[1]).ret.ok
    /\ ret[1] = Ok(<<>>)

\* C2: the list load returns is the concatenation, in the order of load's
\* browser list, of the lists of the entry points that returned Ok; order
\* and duplicates are kept and a failed entry point contributes nothing.
C2_LoadConcatenates ==
    \A p \in Procs :
      LoadDone(p) => ret[p] = Ok(ConcatOk(LoadOrder(os), domains[p]))

\* A finished load where two entry points returned cookies and the result
\* holds a cookie twice.
C2_Witness ==
    /\ LoadDone(1)
    /\ Cardinality({b \in Range(invoked[1]) : OkCookies(b, domains[1]) # <<>>}) >= 2
    /\ \E i, j \in 1..Len(ret[1].cookies) :
         i < j /\ ret[1].cookies[i] = ret[1].cookies[j]

\* C3: load invokes every public entry point that exists on the target.
C3_LoadInvokesAllEntryPoints ==
    \A p \in Procs :
      LoadDone(p) => \A b \in EntryPoints(os) : b \in Range(invoked[p])

\* The rows of the stores read by the entry points of `names` that returned
\* Ok, unfiltered.
RECURSIVE RawRows(_)
RawRows(names) ==
    IF names = <<>> THEN <<>>
    ELSE (IF BrowserFn(Head(names), None).ret.ok
          THEN store[TripleOf(os, Head(names))] ELSE <<>>)
         \o RawRows(Tail(names))

\* C4: load passes its domains unchanged to every entry point; with domains
\* supplied every returned cookie matches a listed entry by the suffix rule,
\* with domains absent no cookie is filtered out.
C4_LoadDomains ==
    \A p \in Procs :
      LoadDone(p) =>
        /\ \A k \in 1..Len(calls[p]) : calls[p][k].domains = domains[p]
        /\ domains[p].some =>
             \A k \in 1..Len(ret[p].cookies) :
               \E j \in 1..Len(domains[p].val) :
                 DomainMatch(domains[p].val[j], ret[p].cookies[k].domain)
        /\ ~domains[p].some => ret[p].cookies = RawRows(invoked[p])

\* A finished load with domains supplied that returned cookies and left out
\* a stored cookie of another domain.
C4_Witness ==
    /\ LoadDone(1)
    /\ domains[1].some
    /\ ret[1].cookies # <<>>
    /\ Len(ret[1].cookies) < Len(RawRows(invoked[1]))

\* C5: a finished call returned a cookie list or an error that names the
\* store and the path that failed.
C5_ErrorsNameStoreAndPath ==
    \A p \in Procs :
      pc[p] = "done" =>
        \/ ret[p].ok
        \/ ret[p].err.store # "" /\ ret[p].err.path # <<>>

\* C6: an entry point only selects its configuration and delegates: when
\* the path lookup fails its error is returned and no extractor is invoked;
\* otherwise the family extractor is invoked once, with the database path
\* found and the caller's domains, and its result is returned unchanged.
C6_EntryPointDelegates ==
    \A p \in Procs :
      EntryDone(p) =>
        IF ConfigOf(fn[p]) \notin installed
        THEN /\ calls[p] = <<>>
             /\ ret[p] = Err(LookupError(ConfigOf(fn[p])))
        ELSE /\ Len(calls[p]) = 1
             /\ calls[p][1].ext = TripleOf(os, fn[p])[1]
             /\ calls[p][1].path = DbPath(ConfigOf(fn[p]))
             /\ calls[p][1].domains = domains[p]
             /\ ret[p] = Run(calls[p][1])

\* A finished call of a Chromium-family entry point, with domains supplied,
\* whose extractor returned cookies.
C6_Witness ==
    /\ EntryDone(1)
    /\ fn[1] \in {"chrome", "brave", "opera_gx"}
    /\ domains[1].some
    /\ Len(calls[1]) = 1
    /\ ret[1].ok /\ ret[1].cookies # <<>>

\* The (extractor, key) pairs any_browser tries, in the documented order.
AnyOrder(o, kp) ==
    IF o = "windows"
    THEN (IF kp.some THEN << <<"chromium", kp.val>> >> ELSE <<>>)
         \o << <<"mozilla", NoKey>>, <<"ie", NoKey>> >>
    ELSE << <<"chromium", ConfigKey("chrome")>>, <<"chromium", ConfigKey("brave")>>,
            <<"chromium", ConfigKey("chromium")>>, <<"chromium", ConfigKey("edge")>>,
            <<"chromium", ConfigKey("opera")>>, <<"chromium", ConfigKey("opera_gx")>>,
            <<"chromium", ConfigKey("vivaldi")>>, <<"mozilla", NoKey>> >>
         \o (IF o = "macos" THEN << <<"safari", NoKey>> >> ELSE <<>>)

\* The k-th invocation of the documented order, for the arguments of call p.
AnyOrderCall(p, k) ==
    ExtractCall(AnyOrder(os, key_path[p])[k][1], AnyOrder(os, key_path[p])[k][2],
                cookies_path[p], domains[p])

\* C8: any_browser invokes the extractors in the fixed order and returns the
\* result of the first that returns Ok, an empty list included; none is
\* invoked after it and the list returned is that extractor's output.
C8_AnyBrowserFirstOk ==
    \A p \in Procs :
      AnyDone(p) =>
        LET n == Len(calls[p])
        IN  /\ n >= 1 /\ n <= Len(AnyOrder(os, key_path[p]))
            /\ \A k \in 1..n : calls[p][k] = AnyOrderCall(p, k)
            /\ \A k \in 1..(n - 1) : ~Run(calls[p][k]).ok
            /\ Run(calls[p][n]).ok => ret[p] = Run(calls[p][n])
            /\ ret[p].ok => Run(calls[p][n]).ok

\* any_browser returned the empty list of the first extractor that succeeded
\* although an extractor later in the order would have returned cookies.
C8_Witness ==
    /\ AnyDone(1)
    /\ ret[1] = Ok(<<>>)
    /\ Len(calls[1]) >= 2
    /\ \E k \in (Len(calls[1]) + 1)..Len(AnyOrder(os, key_path[1])) :
         Run(AnyOrderCall(1, k)).ok /\ Run(AnyOrderCall(1, k)).cookies # <<>>

\* C9: any_browser returns an error exactly when every extractor it attempts
\* on the target returned an error, and the error is the single
\* "No cookies found" error.
C9_AnyBrowserErrIffAllFail ==
    \A p \in Procs :
      AnyDone(p) =>
        /\ ~ret[p].ok <=>
             \A k \in 1..Len(AnyOrder(os, key_path[p])) : ~Run(AnyOrderCall(p, k)).ok
        /\ ~ret[p].ok =>
             /\ ret[p] = Err(NoCookiesFound)
             /\ Len(calls[p]) = Len(AnyOrder(os, key_path[p]))

\* any_browser failed after every extractor of the target was tried.
C9_Witness ==
    /\ AnyDone(1)
    /\ ~ret[1].ok
    /\ Len(calls[1]) >= 2
    /\ \A k \in 1..Len(calls[1]) : ~Run(calls[1][k]).ok

\* The result of load when nothing else runs.
RECURSIVE LoadAlone(_, _, _)
LoadAlone(names, ds, acc) ==
    IF names = <<>> THEN Ok(acc)
    ELSE LoadAlone(Tail(names), ds,
                   extend(acc, unwrap_or(BrowserFn(Head(names), ds).ret, <<>>)))

\* The result of any_browser when nothing else runs.
RECURSIVE AnyAlone(_)
AnyAlone(attempts) ==
    IF attempts = <<>> THEN Err(NoCookiesFound)
    ELSE IF Run(Head(attempts)).ok THEN Run(Head(attempts))
    ELSE AnyAlone(Tail(attempts))

Alone(p) ==
    IF fn[p] = "load" THEN LoadAlone(BrowserTypes(os), domains[p], <<>>)
    ELSE AnyAlone(MyAttempts(p))

\* C7: two calls of load or any_browser running concurrently, in any
\* interleaving, over unchanging stores each return what they return alone.
C7_ConcurrentCallsIndependent ==
    \A p \in Procs : pc[p] = "done" => ret[p] = Alone(p)

\* A call of load has returned cookies while another call of load, with
\* other domains, is in its loop and has collected cookies.
C7_Witness ==
    /\ LoadDone(1) /\ ret[1].cookies # <<>>
    /\ pc[2] = "load" /\ idx[2] > 1 /\ cookies[2] # <<>>
    /\ domains[1] # domains[2]
    /\ cookies[2] # ret[1].cookies

\* The chromium invocations of a call.
ChromiumCalls(p) == {k \in 1..Len(calls[p]) : calls[p][k].ext = "chromium"}

\* C10: key_path governs Chromium extraction only on windows: there
\* chromium_based is attempted exactly when key_path is supplied (without it
\* only firefox_based then internet_explorer_based are); on unix two calls
\* that differ only in key_path return the same result.
C10_KeyPathOnlyOnWindows ==
    /\ os = "windows" =>
         \A p \in Procs :
           AnyDone(p) =>
             /\ ChromiumCalls(p) # {} <=> key_path[p].some
             /\ \A k \in ChromiumCalls(p) : calls[p][k].key = key_path[p].val
             /\ ~key_path[p].some =>
                  \A k \in 1..Len(calls[p]) :
                    calls[p][k].ext = <<"mozilla", "ie">>[k]
    /\ os # "windows" =>
         \A p, q \in Procs :
           (/\ AnyDone(p) /\ AnyDone(q)
            /\ cookies_path[p] = cookies_path[q]
            /\ domains[p] = domains[q]) => ret[p] = ret[q] /\ calls[p] = calls[q]

\* On unix two finished calls of any_browser that differ only in key_path,
\* both returning the cookies of a Chromium store.
C10_Witness ==
    /\ os = "linux"
    /\ AnyDone(1) /\ AnyDone(2)
    /\ cookies_path[1] = cookies_path[2] /\ domains[1] = domains[2]
    /\ ~key_path[1].some /\ key_path[2].some
    /\ ret[1].ok /\ ret[1].cookies # <<>>
    /\ calls[1][Len(calls[1])].ext = "chromium"

=============================================================================
